---- MODULE Spec2Model ----
(***************************************************************************)
(* Network Performance Tester (src/npt.py): the run driven by main(), the  *)
(* six measure_* probes of NetworkTester, and the background thread that   *)
(* measure_mtu starts and joins with a 10 second timeout.                  *)
(*                                                                         *)
(* Main thread and MTU thread interleave at every call of an external      *)
(* collaborator (ping, speedtest, resolver.resolve, sr1, Thread.join).     *)
(* Durations are whole seconds; millisecond quantities are integers and    *)
(* results rounded to two decimals are kept in hundredths.                 *)
(*                                                                         *)
(* Spec and FairSpec are the whole run; SampleSpec is the three            *)
(* sample-based methods on longer sample sequences; TimeoutSpec is the     *)
(* timeout() context manager, which no method of the program calls.        *)
(***************************************************************************)
EXTENDS Integers, Sequences, FiniteSets, TLC

\* ---------------------------------------------------------------- bounds
\* longest explicit --metrics list that is enumerated
MaxMetrics == 2
\* largest --samples value that is enumerated
MaxSamples == 2
\* deepest nesting of timeout() blocks that is enumerated
MaxDepth == 2
\* largest timeout(seconds) argument that is enumerated
MaxBudget == 3

\* ------------------------------------------------------ program constants
\* mtu_size = 1500
MaxMtu == 1500
\* mtu_size -= 10
MtuStep == 10
\* "X" * (mtu_size - 40)
HeaderBytes == 40
\* timeout_seconds = 10 in measure_mtu_with_timeout
timeout_seconds == 10
\* sr1(packet, timeout=1)
ProbeTimeout == 1
\* mtu_thread.join(timeout=10)
JoinTimeout == 10

\* choices of --metrics
MetricChoices == {"latency", "packet_loss", "bandwidth", "jitter", "mtu", "dns"}

\* metric_methods, in insertion order (the order of "run all tests")
DefaultOrder == <<"latency", "packet_loss", "bandwidth", "jitter", "mtu", "dns">>

\* the key of self.results each measure_* method assigns
KeyOf(metric) == IF metric = "dns" THEN "dns_resolution" ELSE metric

ResultKeys == {KeyOf(m) : m \in MetricChoices}

\* round-trip times ping() can yield, in ms (result * 1000)
PingValues == {10, 15}
\* resolution times in ms
DnsValues == {20, 30}
\* st.download() / st.upload() in Mbps (value / 1_000_000)
SpeedValues == {50}
\* domains = ['google.com', 'microsoft.com', 'amazon.com']
Domains == <<"google.com", "microsoft.com", "amazon.com">>

\* Python None as a dictionary value
None == [absent |-> TRUE]
\* Python None for a speed that could not be measured
NoSpeed == <<>>

VARIABLES
  env,              \* what the network and the host clock can do in this run
  metrics,          \* args.metrics: the requested list, << >> when not given
  sample_size,      \* args.samples
  results,          \* tester.results: key -> None or record
  printed,          \* what print_report wrote to stdout (<< >> before)
  saved,            \* what save_report dumped to the JSON file (<< >> before)
  idx,              \* position of main in the list of methods to call
  mpc,              \* where the main thread stands
  i,                \* iterations of the current sample loop that are done
  latencies,        \* local list of measure_latency / measure_jitter
  received,         \* local counter of measure_packet_loss
  download_speed,   \* local of measure_bandwidth
  resolution_times, \* local list of measure_dns_resolution
  tpc,              \* where the MTU thread stands
  mtu_size,         \* local of measure_mtu_with_timeout
  elapsed,          \* time.time() - start_time as the thread reads it
  waited,           \* seconds the main thread has spent in join()
  wall_steady,      \* whether time.time() advances with real time
  sent,             \* sizes of the probe packets sent so far, in order
  answered,         \* sizes whose probe got a reply
  writes,           \* number of assignments to results[key] in this run
  status,           \* per requested probe: Pending, Running, or a terminal state
  abandoned,        \* measure_mtu gave up on a thread that was still alive
  attempts,         \* outcomes of the ping / resolve calls of the method last entered
  alarm,            \* seconds until the pending SIGALRM, 0 when none is pending
  blocks,           \* the timeout() blocks that are open, outermost first
  raised            \* the signal handler raised TimeoutException

vars == <<env, metrics, sample_size, results, printed, saved, idx, mpc, i, latencies,
          received, download_speed, resolution_times, tpc, mtu_size, elapsed,
          waited, wall_steady, sent, answered, writes, status, abandoned, attempts,
          alarm, blocks, raised>>

mainLocals == <<i, latencies, received, download_speed, resolution_times>>
threadVars == <<tpc, mtu_size, elapsed, waited, wall_steady, sent, answered>>
reportVars == <<printed, saved>>
govVars == <<alarm, blocks, raised>>
programVars == <<env, metrics, sample_size, results, writes, idx, mpc, status,
                 mainLocals, threadVars, reportVars, abandoned, attempts>>

Min(a, b) == IF a <= b THEN a ELSE b

\* the methods main() calls, in order
Plan == IF metrics = << >> THEN DefaultOrder ELSE metrics

\* an explicit list: argparse nargs='+' of the choices; repetitions are left out
Injective(s) == \A a, b \in DOMAIN s : a # b => s[a] # s[b]

RequestLists ==
  {s \in UNION {[1..n -> MetricChoices] : n \in 1..MaxMetrics} : Injective(s)}

\* a path with one round-trip time and a wall clock that is never stepped
PlainEnv == [rtt |-> {10}, dns |-> {20}, stepped |-> {FALSE}]

\* a path with varying times, on a host whose wall clock may be stepped
RichEnv == [rtt |-> PingValues, dns |-> DnsValues, stepped |-> BOOLEAN]

\* a path with three different round-trip times and a steady clock
WideEnv == [rtt |-> {10, 12, 15}, dns |-> {20}, stepped |-> {FALSE}]

\* runs of one sample-based method with up to MaxSamples + 1 samples
SampleRuns ==
  {[metrics |-> <<m>>, sample_size |-> n, env |-> WideEnv] :
     m \in {"latency", "packet_loss", "jitter"}, n \in 0..(MaxSamples + 1)}

\* the runs that are enumerated: "run all tests" and every explicit list on
\* the plain environment, every single metric on the rich one
Runs ==
  {[metrics |-> m, sample_size |-> n, env |-> PlainEnv] :
     m \in {<< >>} \cup RequestLists, n \in 0..MaxSamples}
    \cup {[metrics |-> <<m>>, sample_size |-> n, env |-> RichEnv] :
             m \in MetricChoices, n \in 0..MaxSamples}

Terminal == {"Succeeded", "Failed", "TimedOut"}

\* self.results[key] = v
Put(r, key, v) == [k \in DOMAIN r \cup {key} |-> IF k = key THEN v ELSE r[k]]

Store(key, v) ==
  /\ results' = Put(results, key, v)
  /\ writes' = [writes EXCEPT ![key] = @ + 1]

\* NetworkTester.__init__ and the state of main() before the first call
InitRun(run) ==
  /\ metrics = run.metrics
  /\ sample_size = run.sample_size
  /\ env = run.env
  /\ results = << >>
  /\ printed = << >>
  /\ saved = << >>
  /\ idx = 1
  /\ mpc = "idle"
  /\ i = 0
  /\ latencies = << >>
  /\ received = 0
  /\ download_speed = NoSpeed
  /\ resolution_times = << >>
  /\ tpc = "none"
  /\ mtu_size = MaxMtu
  /\ elapsed = 0
  /\ waited = 0
  /\ wall_steady = TRUE
  /\ sent = << >>
  /\ answered = {}
  /\ writes = [k \in ResultKeys |-> 0]
  /\ status = [k \in 1..Len(Plan) |-> "Pending"]
  /\ abandoned = FALSE
  /\ attempts = << >>

\* no timeout() block is open and no alarm is pending
GovernorIdle ==
  /\ alarm = 0
  /\ blocks = << >>
  /\ raised = FALSE

Init ==
  /\ \E run \in Runs : InitRun(run)
  /\ GovernorIdle

\* the method returns to main(): next entry of the list
Return(st) ==
  /\ idx' = idx + 1
  /\ mpc' = "idle"
  /\ status' = [status EXCEPT ![idx] = st]
  /\ i' = 0
  /\ latencies' = << >>
  /\ received' = 0
  /\ download_speed' = NoSpeed
  /\ resolution_times' = << >>

\* a handler that records the failure and leaves the loop of main()
ExceptAborts(key) ==
  /\ Store(key, None)
  /\ idx' = Len(Plan) + 1
  /\ mpc' = "idle"
  /\ status' = [status EXCEPT ![idx] = "Failed"]
  /\ i' = 0
  /\ latencies' = << >>
  /\ received' = 0
  /\ download_speed' = NoSpeed
  /\ resolution_times' = << >>

\* except Exception as e: self.results[key] = None
Except(key) ==
  /\ Store(key, None)
  /\ Return("Failed")

\* main() calls the next method of the list
Calls(metric) ==
  /\ mpc = "idle"
  /\ idx <= Len(Plan)
  /\ Plan[idx] = metric

Enter(pc) ==
  /\ mpc' = pc
  /\ status' = [status EXCEPT ![idx] = "Running"]
  /\ attempts' = << >>
  /\ UNCHANGED idx

\* an external call that never returns
Hang ==
  /\ mpc' = "blocked"
  /\ UNCHANGED <<idx, status>>

\* ------------------------------------------------------------- statistics
RECURSIVE Sum(_)
Sum(s) == IF s = << >> THEN 0 ELSE Head(s) + Sum(Tail(s))

SeqMin(s) == CHOOSE x \in {s[k] : k \in DOMAIN s} : \A y \in {s[k] : k \in DOMAIN s} : x <= y

SeqMax(s) == CHOOSE x \in {s[k] : k \in DOMAIN s} : \A y \in {s[k] : k \in DOMAIN s} : x >= y

Abs(x) == IF x < 0 THEN -x ELSE x

\* round(num / den, 2) in hundredths, num >= 0, den > 0: Python rounds half to even
Round2(num, den) ==
  LET n == num * 100
      q == n \div den
      r == n % den
  IN  IF 2 * r > den THEN q + 1
      ELSE IF 2 * r = den THEN q + (q % 2)
      ELSE q

\* {'average_ms': round(mean, 2), 'min_ms': round(min, 2), 'max_ms': round(max, 2)}
Summary(s) ==
  [average_ms |-> Round2(Sum(s), Len(s)),
   min_ms |-> Round2(SeqMin(s), 1),
   max_ms |-> Round2(SeqMax(s), 1)]

\* differences.append(abs(latencies[i] - latencies[i-1])) for i in range(1, len)
Differences(s) == [k \in 1..(Len(s) - 1) |-> Abs(s[k + 1] - s[k])]

\* --------------------------------------------------------- measure_latency
LatencyStart ==
  /\ Calls("latency")
  /\ Enter("latency_loop")
  /\ UNCHANGED <<env, metrics, sample_size, results, writes, mainLocals, threadVars,
                 reportVars, abandoned, govVars>>

\* what one ping(self.target_host) call does: a round-trip time, None, an
\* exception, or no return at all
PingOutcomes ==
  {[kind |-> "value", ms |-> v] : v \in env.rtt}
    \cup {[kind |-> k, ms |-> 0] : k \in {"none", "raise", "hang"}}

\* one iteration of "for _ in range(self.sample_size)": ping, append, sleep
PingLoop(pc, key) ==
  /\ mpc = pc
  /\ i < sample_size
  /\ \E out \in PingOutcomes :
       /\ attempts' = Append(attempts, out)
       /\ CASE out.kind = "raise" ->
                 /\ Except(key)
            [] out.kind = "hang" ->
                 /\ Hang
                 /\ UNCHANGED <<results, writes, mainLocals>>
            [] out.kind = "none" ->
                 /\ i' = i + 1
                 /\ UNCHANGED <<results, writes, latencies, received, download_speed,
                                resolution_times, idx, mpc, status>>
            [] OTHER ->
                 /\ i' = i + 1
                 /\ latencies' = Append(latencies, out.ms)
                 /\ UNCHANGED <<results, writes, received, download_speed,
                                resolution_times, idx, mpc, status>>
  /\ UNCHANGED <<env, metrics, sample_size, threadVars, reportVars, abandoned, govVars>>

LatencyPing == PingLoop("latency_loop", "latency")

\* after the loop: "if latencies: ... else: raise Exception"
LatencyDone ==
  /\ mpc = "latency_loop"
  /\ i >= sample_size
  /\ IF latencies # << >>
       THEN /\ Store("latency", Summary(latencies))
            /\ Return("Succeeded")
       ELSE Except("latency")
  /\ UNCHANGED <<env, metrics, sample_size, threadVars, reportVars, abandoned, attempts, govVars>>

\* ----------------------------------------------------- measure_packet_loss
PacketLossStart ==
  /\ Calls("packet_loss")
  /\ Enter("loss_loop")
  /\ UNCHANGED <<env, metrics, sample_size, results, writes, mainLocals, threadVars,
                 reportVars, abandoned, govVars>>

\* one iteration of "for _ in range(sent)"
PacketLossPing ==
  /\ mpc = "loss_loop"
  /\ i < sample_size
  /\ \E out \in {"reply", "none", "raise", "hang"} :
       /\ attempts' = Append(attempts, [kind |-> out, ms |-> 0])
       /\ CASE out = "raise" ->
                 /\ Except("packet_loss")
            [] out = "hang" ->
                 /\ Hang
                 /\ UNCHANGED <<results, writes, mainLocals>>
            [] OTHER ->
                 /\ i' = i + 1
                 /\ received' = IF out = "reply" THEN received + 1 ELSE received
                 /\ UNCHANGED <<results, writes, latencies, download_speed,
                                resolution_times, idx, mpc, status>>
  /\ UNCHANGED <<env, metrics, sample_size, threadVars, reportVars, abandoned, govVars>>

\* a variant that reports the share of replies instead of the share lost
LossRateOfReceived(n, rcv) ==
  IF n = 0 THEN << >> ELSE <<Round2(rcv * 100, n)>>

\* a variant that reports 0 percent where the division by zero would raise
LossRateGuarded(n, rcv) ==
  IF n = 0 THEN <<0>> ELSE <<Round2((n - rcv) * 100, n)>>

\* round(((sent - received) / sent) * 100, 2); << >> stands for the
\* ZeroDivisionError of sent = 0
LossRate(n, rcv) ==
  IF n = 0 THEN << >> ELSE <<Round2((n - rcv) * 100, n)>>

\* after the loop: the rate is computed and stored, or the division raises
PacketLossDone ==
  /\ mpc = "loss_loop"
  /\ i >= sample_size
  /\ IF LossRate(sample_size, received) # << >>
       THEN /\ Store("packet_loss",
                     [loss_rate_percent |-> LossRate(sample_size, received)[1],
                      packets_sent |-> sample_size,
                      packets_received |-> received])
            /\ Return("Succeeded")
       ELSE Except("packet_loss")
  /\ UNCHANGED <<env, metrics, sample_size, threadVars, reportVars, abandoned, attempts, govVars>>

\* ---------------------------------------------------------- measure_jitter
JitterStart ==
  /\ Calls("jitter")
  /\ Enter("jitter_loop")
  /\ UNCHANGED <<env, metrics, sample_size, results, writes, mainLocals, threadVars,
                 reportVars, abandoned, govVars>>

JitterPing == PingLoop("jitter_loop", "jitter")

\* after the loop: "if len(latencies) >= 2: ... else: raise Exception"
JitterDone ==
  /\ mpc = "jitter_loop"
  /\ i >= sample_size
  /\ IF Len(latencies) >= 2
       THEN /\ Store("jitter", Summary(Differences(latencies)))
            /\ Return("Succeeded")
       ELSE Except("jitter")
  /\ UNCHANGED <<env, metrics, sample_size, threadVars, reportVars, abandoned, attempts, govVars>>

\* ------------------------------------------------------- measure_bandwidth
BandwidthStart ==
  /\ Calls("bandwidth")
  /\ Enter("bw_init")
  /\ UNCHANGED <<env, metrics, sample_size, results, writes, mainLocals, threadVars,
                 reportVars, abandoned, govVars>>

\* the outer handler: both speeds None in a populated record
BandwidthExcept ==
  /\ Store("bandwidth", [download_mbps |-> NoSpeed, upload_mbps |-> NoSpeed])
  /\ Return("Failed")

\* st = speedtest.Speedtest(secure=True), then st.get_best_server()
BandwidthSetup(pc, next) ==
  /\ mpc = pc
  /\ \E out \in {"ok", "raise", "hang"} :
       CASE out = "raise" ->
              /\ BandwidthExcept
         [] out = "hang" ->
              /\ Hang
              /\ UNCHANGED <<results, writes, mainLocals>>
         [] OTHER ->
              /\ mpc' = next
              /\ UNCHANGED <<results, writes, mainLocals, idx, status>>
  /\ UNCHANGED <<env, metrics, sample_size, threadVars, reportVars, abandoned, attempts, govVars>>

BandwidthInit == BandwidthSetup("bw_init", "bw_server")

BandwidthServer == BandwidthSetup("bw_server", "bw_download")

SpeedOutcomes ==
  {[kind |-> "value", mbps |-> v] : v \in SpeedValues}
    \cup {[kind |-> k, mbps |-> 0] : k \in {"raise", "hang"}}

\* round(speed, 2), or None when the transfer raised
Speed(out) == IF out.kind = "value" THEN <<Round2(out.mbps, 1)>> ELSE NoSpeed

\* download_speed = st.download() / 1_000_000, its own try/except
BandwidthDownload ==
  /\ mpc = "bw_download"
  /\ \E out \in SpeedOutcomes :
       IF out.kind = "hang"
         THEN /\ Hang
              /\ UNCHANGED mainLocals
         ELSE /\ download_speed' = Speed(out)
              /\ mpc' = "bw_upload"
              /\ UNCHANGED <<i, latencies, received, resolution_times, idx, status>>
  /\ UNCHANGED <<env, metrics, sample_size, results, writes, threadVars, reportVars,
                 abandoned, attempts, govVars>>

\* upload_speed = st.upload() / 1_000_000, then the results are stored
BandwidthUpload ==
  /\ mpc = "bw_upload"
  /\ \E out \in SpeedOutcomes :
       IF out.kind = "hang"
         THEN /\ Hang
              /\ UNCHANGED <<results, writes, mainLocals>>
         ELSE /\ Store("bandwidth",
                       [download_mbps |-> download_speed, upload_mbps |-> Speed(out)])
              /\ Return("Succeeded")
  /\ UNCHANGED <<env, metrics, sample_size, threadVars, reportVars, abandoned, attempts, govVars>>

\* -------------------------------------------------- measure_dns_resolution
DnsStart ==
  /\ Calls("dns")
  /\ Enter("dns_loop")
  /\ UNCHANGED <<env, metrics, sample_size, results, writes, mainLocals, threadVars,
                 reportVars, abandoned, govVars>>

DnsOutcomes ==
  {[kind |-> "value", ms |-> v] : v \in env.dns}
    \cup {[kind |-> k, ms |-> 0] : k \in {"raise", "hang"}}

\* a loop that swallows a failed resolution, times it and goes on
DnsResolveSkips ==
  /\ mpc = "dns_loop"
  /\ i < Len(Domains)
  /\ \E out \in DnsOutcomes :
       /\ attempts' = Append(attempts, out)
       /\ CASE out.kind = "hang" ->
                 /\ Hang
                 /\ UNCHANGED <<results, writes, mainLocals>>
            [] OTHER ->
                 /\ i' = i + 1
                 /\ resolution_times' = Append(resolution_times, out.ms)
                 /\ UNCHANGED <<results, writes, latencies, received, download_speed,
                                idx, mpc, status>>
  /\ UNCHANGED <<env, metrics, sample_size, threadVars, reportVars, abandoned, govVars>>

\* one iteration of "for domain in domains": resolver.resolve(domain), timed
DnsResolve ==
  /\ mpc = "dns_loop"
  /\ i < Len(Domains)
  /\ \E out \in DnsOutcomes :
       /\ attempts' = Append(attempts, out)
       /\ CASE out.kind = "raise" ->
                 /\ Except("dns_resolution")
            [] out.kind = "hang" ->
                 /\ Hang
                 /\ UNCHANGED <<results, writes, mainLocals>>
            [] OTHER ->
                 /\ i' = i + 1
                 /\ resolution_times' = Append(resolution_times, out.ms)
                 /\ UNCHANGED <<results, writes, latencies, received, download_speed,
                                idx, mpc, status>>
  /\ UNCHANGED <<env, metrics, sample_size, threadVars, reportVars, abandoned, govVars>>

\* after the loop: the summary of the three timings
DnsDone ==
  /\ mpc = "dns_loop"
  /\ i >= Len(Domains)
  /\ Store("dns_resolution", Summary(resolution_times))
  /\ Return("Succeeded")
  /\ UNCHANGED <<env, metrics, sample_size, threadVars, reportVars, abandoned, attempts, govVars>>

\* ------------------------------------------------------------- measure_mtu
\* real time d passes while the thread runs: the thread sees it through
\* time.time(), which follows real time only while the wall clock is not
\* stepped; join() counts it on the monotonic clock
Advance(d) ==
  /\ elapsed' = IF wall_steady THEN Min(elapsed + d, timeout_seconds + 1) ELSE elapsed
  /\ waited' = IF mpc = "join" THEN Min(waited + d, JoinTimeout) ELSE waited

\* mtu_thread.start(), or the start raising into the handler of measure_mtu
MtuStart ==
  /\ Calls("mtu")
  /\ \E out \in {"started", "raise"} :
       IF out = "started"
         THEN /\ Enter("join")
              /\ tpc' = "loop"
              /\ mtu_size' = MaxMtu
              /\ elapsed' = 0
              /\ waited' = 0
              /\ wall_steady' \in {~b : b \in env.stepped}
              /\ sent' = << >>
              /\ answered' = {}
              /\ UNCHANGED <<results, writes, mainLocals>>
         ELSE /\ Except("mtu")
              /\ UNCHANGED <<threadVars, attempts>>
  /\ UNCHANGED <<env, metrics, sample_size, reportVars, abandoned, govVars>>

\* the thread function has ended (by return or by its except clause)
ThreadEnded == {"returned", "timed_out", "raised"}

\* mtu_thread.join(timeout=10) returns: the thread ended, or 10 s are over
MtuJoin ==
  /\ mpc = "join"
  /\ \/ tpc \in ThreadEnded
     \/ tpc = "blocked"
     \/ waited >= JoinTimeout
  /\ mpc' = "is_alive"
  /\ UNCHANGED <<env, metrics, sample_size, results, writes, idx, status, mainLocals,
                 threadVars, reportVars, abandoned, attempts, govVars>>

\* "if mtu_thread.is_alive():", else "if 'mtu' not in self.results: ... = None"
MtuIsAlive ==
  /\ mpc = "is_alive"
  /\ IF tpc \notin ThreadEnded
       THEN /\ mpc' = "mtu_timed_out"
            /\ UNCHANGED <<results, writes, idx, status, mainLocals>>
       ELSE IF "mtu" \notin DOMAIN results
         THEN /\ Store("mtu", None)
              /\ Return("Failed")
         ELSE /\ Return(IF results["mtu"] = None THEN "Failed" ELSE "Succeeded")
              /\ UNCHANGED <<results, writes>>
  /\ UNCHANGED <<env, metrics, sample_size, threadVars, reportVars, abandoned, attempts, govVars>>

\* the thread was alive: self.results['mtu'] = None; return
MtuTimedOut ==
  /\ mpc = "mtu_timed_out"
  /\ Store("mtu", None)
  /\ Return("TimedOut")
  /\ abandoned' = TRUE
  /\ UNCHANGED <<env, metrics, sample_size, threadVars, reportVars, attempts, govVars>>

\* ------------------------------- _measure_mtu_thread, measure_mtu_with_timeout
\* the daemon thread runs as long as the process does
ThreadRuns(pc) ==
  /\ tpc = pc
  /\ mpc # "done"

\* a loop that also probes the candidate 0
LoopConditionInclusive(size) == size >= 0

\* while mtu_size > 0
LoopCondition(size) == size > 0

\* if time.time() - start_time > timeout_seconds
TimedOut(e) == e > timeout_seconds

\* a descent that skips every other candidate
NextCandidateSkips(size) == size - 2 * MtuStep

\* mtu_size -= 10
NextCandidate(size) == size - MtuStep

\* len("X" * (mtu_size - 40))
PayloadLen(size) == IF size > HeaderBytes THEN size - HeaderBytes ELSE 0

\* the thread's terminal assignment to results['mtu']
ThreadStore(v, end) ==
  /\ Store("mtu", v)
  /\ tpc' = end

\* loop head passed: the packet is built and sr1 sends it
MtuLoopSend ==
  /\ ThreadRuns("loop")
  /\ LoopCondition(mtu_size)
  /\ ~TimedOut(elapsed)
  /\ tpc' = "sr1"
  /\ sent' = Append(sent, mtu_size)
  /\ UNCHANGED <<env, metrics, sample_size, results, writes, idx, mpc, status, mainLocals,
                 mtu_size, elapsed, waited, wall_steady, answered, reportVars,
                 abandoned, attempts, govVars>>

\* raise TimeoutException, caught in _measure_mtu_thread
MtuLoopTimeout ==
  /\ ThreadRuns("loop")
  /\ LoopCondition(mtu_size)
  /\ TimedOut(elapsed)
  /\ ThreadStore(None, "timed_out")
  /\ UNCHANGED <<env, metrics, sample_size, idx, mpc, status, mainLocals, mtu_size,
                 elapsed, waited, wall_steady, sent, answered, reportVars, abandoned, attempts, govVars>>

\* the loop ran out: "return mtu_size" after the loop
MtuLoopExhausted ==
  /\ ThreadRuns("loop")
  /\ ~LoopCondition(mtu_size)
  /\ ThreadStore([size_bytes |-> mtu_size], "returned")
  /\ UNCHANGED <<env, metrics, sample_size, idx, mpc, status, mainLocals, mtu_size,
                 elapsed, waited, wall_steady, sent, answered, reportVars, abandoned, attempts, govVars>>

\* what sr1(packet, timeout=1) does: a reply after d seconds, None after the
\* timeout, an exception, or no return at all
Sr1Outcomes ==
  {[kind |-> "reply", d |-> d] : d \in {0, ProbeTimeout}}
    \cup {[kind |-> "none", d |-> ProbeTimeout],
          [kind |-> "raise", d |-> 0],
          [kind |-> "hang", d |-> 0]}

\* reply = sr1(packet, timeout=1) returns, and the loop body ends
MtuSr1 ==
  /\ ThreadRuns("sr1")
  /\ \E out \in Sr1Outcomes :
       /\ Advance(out.d)
       /\ CASE out.kind = "reply" ->
                 /\ ThreadStore([size_bytes |-> mtu_size], "returned")
                 /\ answered' = answered \cup {mtu_size}
                 /\ UNCHANGED mtu_size
            [] out.kind = "none" ->
                 /\ mtu_size' = NextCandidate(mtu_size)
                 /\ tpc' = "loop"
                 /\ UNCHANGED <<results, writes, answered>>
            [] out.kind = "raise" ->
                 /\ ThreadStore(None, "raised")
                 /\ UNCHANGED <<mtu_size, answered>>
            [] OTHER ->
                 /\ tpc' = "blocked"
                 /\ UNCHANGED <<results, writes, mtu_size, answered>>
  /\ UNCHANGED <<env, metrics, sample_size, idx, mpc, status, mainLocals, wall_steady,
                 sent, reportVars, abandoned, attempts, govVars>>

\* ------------------------------------------------------------------ main
\* tester.print_report(): every entry of self.results as it is now
PrintReport ==
  /\ mpc = "idle"
  /\ idx > Len(Plan)
  /\ printed' = results
  /\ mpc' = "save"
  /\ UNCHANGED <<env, metrics, sample_size, results, writes, idx, status, mainLocals,
                 threadVars, saved, abandoned, attempts, govVars>>

\* tester.save_report(): json.dump(self.results), then the process exits
SaveReport ==
  /\ mpc = "save"
  /\ saved' = results
  /\ mpc' = "done"
  /\ UNCHANGED <<env, metrics, sample_size, results, writes, idx, status, mainLocals,
                 threadVars, printed, abandoned, attempts, govVars>>

MainNext ==
  \/ LatencyStart \/ LatencyPing \/ LatencyDone
  \/ PacketLossStart \/ PacketLossPing \/ PacketLossDone
  \/ BandwidthStart \/ BandwidthInit \/ BandwidthServer
  \/ BandwidthDownload \/ BandwidthUpload
  \/ JitterStart \/ JitterPing \/ JitterDone
  \/ MtuStart \/ MtuJoin \/ MtuIsAlive \/ MtuTimedOut
  \/ DnsStart \/ DnsResolve \/ DnsDone
  \/ PrintReport \/ SaveReport

ThreadNext ==
  \/ MtuLoopSend \/ MtuLoopTimeout \/ MtuLoopExhausted \/ MtuSr1

Next == MainNext \/ ThreadNext

Spec == Init /\ [][Next]_vars

\* --------------------------------------------------------------- timeout()
\* "with timeout(seconds):" is entered: signal.signal installs the handler and
\* signal.alarm(seconds) arms the one alarm of the process, replacing whatever
\* was pending
TimeoutEnter ==
  /\ Len(blocks) < MaxDepth
  /\ \E seconds \in 1..MaxBudget :
       /\ alarm' = seconds
       /\ blocks' = Append(blocks, [seconds |-> seconds, ran |-> 0, nested |-> FALSE])
  /\ raised' = FALSE
  /\ UNCHANGED programVars

\* one second passes in the body of the innermost block; when the pending
\* alarm runs out SIGALRM is delivered, signal_handler raises TimeoutException
\* and the finally clause of every open block runs on the way out
TimeoutBodyRuns ==
  /\ blocks # << >>
  /\ IF alarm = 1
       THEN /\ alarm' = 0
            /\ blocks' = << >>
            /\ raised' = TRUE
       ELSE /\ alarm' = IF alarm = 0 THEN 0 ELSE alarm - 1
            /\ blocks' = [k \in DOMAIN blocks |->
                            [blocks[k] EXCEPT !.ran = Min(@ + 1, MaxBudget + 1)]]
            /\ UNCHANGED raised
  /\ UNCHANGED programVars

\* the body of the innermost block ends normally: finally: signal.alarm(0)
TimeoutExit ==
  /\ blocks # << >>
  /\ alarm' = 0
  /\ blocks' = [k \in 1..(Len(blocks) - 1) |->
                  IF k = Len(blocks) - 1
                    THEN [blocks[k] EXCEPT !.nested = TRUE]
                    ELSE blocks[k]]
  /\ UNCHANGED raised
  /\ UNCHANGED programVars

\* the context manager on its own, used with nested blocks
TimeoutInit ==
  /\ InitRun([metrics |-> << >>, sample_size |-> 0, env |-> PlainEnv])
  /\ GovernorIdle

TimeoutNext == TimeoutEnter \/ TimeoutBodyRuns \/ TimeoutExit

TimeoutSpec == TimeoutInit /\ [][TimeoutNext]_vars

\* the sample-based methods alone, on longer sample sequences
SampleInit ==
  /\ \E run \in SampleRuns : InitRun(run)
  /\ GovernorIdle

SampleNext ==
  \/ LatencyStart \/ LatencyPing \/ LatencyDone
  \/ PacketLossStart \/ PacketLossPing \/ PacketLossDone
  \/ JitterStart \/ JitterPing \/ JitterDone
  \/ PrintReport \/ SaveReport

SampleSpec == SampleInit /\ [][SampleNext]_vars

\* both threads are scheduled as long as they can take a step
FairSpec == Spec /\ WF_vars(MainNext) /\ WF_vars(ThreadNext)

\* ================================================================ claims
\* the metric names requested on the command line
Requested == {Plan[k] : k \in 1..Len(Plan)}

\* the entry of a key in a dictionary that holds it
Absent(r, key) == key \in DOMAIN r /\ r[key] = None

\* C1: when the run has finished, the key set of the report equals the set
\* of requested metric names exactly.
C1_KeySetEqualsRequest ==
  mpc = "done" => DOMAIN results = Requested

\* C2: between the start of the run and the report being printed and saved,
\* every requested metric's entry is assigned exactly once.
C2_WrittenExactlyOnce ==
  mpc \in {"save", "done"} =>
    \A k \in 1..Len(Plan) : writes[KeyOf(Plan[k])] = 1

\* C3: once measure_mtu has recorded None because the thread was still alive
\* at the deadline, results['mtu'] stays None, in the dictionary and in the
\* report that is printed and saved.
C3_TimedOutStaysAbsent ==
  abandoned =>
    /\ Absent(results, "mtu")
    /\ DOMAIN printed # {} => Absent(printed, "mtu")
    /\ DOMAIN saved # {} => Absent(saved, "mtu")

\* C4: the report is printed and saved only after every requested probe has
\* reached a terminal state, probes end in the order of the list, and after a
\* Failed or TimedOut probe main() stands at the call of the next one.
C4_NeverReturnsEarly ==
  /\ mpc \in {"save", "done"} => \A k \in DOMAIN status : status[k] \in Terminal
  /\ \A k \in DOMAIN status :
       /\ status[k] \in Terminal => idx > k
       /\ status[k] # "Pending" => \A j \in 1..(k - 1) : status[j] \in Terminal
       /\ (/\ status[k] \in {"Failed", "TimedOut"}
           /\ k < Len(Plan)
           /\ status[k + 1] = "Pending")
          => (mpc = "idle" /\ idx = k + 1 /\ ENABLED MainNext)

\* C4 witness: a finished run in which a probe failed, the MTU probe timed
\* out and a later probe still succeeded
C4_Witness ==
  /\ mpc = "done"
  /\ \E j, k, l \in DOMAIN status :
       /\ j < k /\ k < l
       /\ status[j] = "Failed"
       /\ status[k] = "TimedOut"
       /\ status[l] = "Succeeded"

\* C5: under fair scheduling the run eventually reaches its terminal state,
\* whatever the external calls do.
C5_RunTerminates == <>(mpc = "done")

\* C6: once main() has started the probe that follows mtu in the list, the
\* MTU thread has no sized probe packet outstanding.
C6_OneProbeAtATime ==
  \A k \in 1..(Len(Plan) - 1) :
    (Plan[k] = "mtu" /\ status[k + 1] # "Pending") => tpc # "sr1"

\* the first n candidates of the descent: 1500, 1490, ...
Descent(n) == [k \in 1..n |-> MaxMtu - (k - 1) * MtuStep]

\* C7: when measure_mtu_with_timeout returns a size s > 0, the probe of size
\* s was answered, every candidate above s was probed before it, in
\* descending order, without a reply, and nothing below s was probed.
C7_FirstSuccessFromTop ==
  (tpc = "returned" /\ mtu_size > 0) =>
    /\ answered = {mtu_size}
    /\ sent = Descent(Len(sent))
    /\ sent[Len(sent)] = mtu_size

\* C7 witness: a size below the top is returned after unanswered probes
C7_Witness ==
  /\ tpc = "returned"
  /\ mtu_size > 0
  /\ Len(sent) >= 3

\* the probes that have come back so far agree with a path that answers
\* exactly the sizes at or below t
ThresholdPath(t) ==
  /\ \A s \in answered : s <= t
  /\ \A k \in 1..Len(sent) :
       (sent[k] \notin answered /\ ~(k = Len(sent) /\ tpc \in {"sr1", "blocked"}))
         => sent[k] > t

\* C8: on a path that answers exactly the sizes at or below 1000, with a
\* steady clock and one second per unanswered probe, the discovery ends by
\* returning 1000.
C8_FindsThreshold ==
  (wall_steady /\ ThresholdPath(1000) /\ tpc \in {"returned", "timed_out"}) =>
    (tpc = "returned" /\ mtu_size = 1000)

\* C9: when the descent runs out without any reply, the mtu entry written is
\* flagged: it does not have the shape of an entry that a reply produces.
C9_DegenerateIsFlagged ==
  (/\ tpc = "returned"
   /\ answered = {}
   /\ "mtu" \in DOMAIN results
   /\ results["mtu"] # None) =>
    DOMAIN results["mtu"] # {"size_bytes"}

SampleBased == {"latency", "packet_loss", "jitter"}

\* C10: with sample_size = 0 each of measure_latency, measure_packet_loss and
\* measure_jitter calls ping never, returns to main() and leaves None as its
\* metric's entry.
C10_ZeroSamplesAbsent ==
  sample_size = 0 =>
    \A k \in DOMAIN status :
      Plan[k] \in SampleBased =>
        /\ status[k] # "Succeeded"
        /\ status[k] = "Running" => (i = 0 /\ latencies = << >> /\ mpc # "blocked")
        /\ status[k] \in Terminal => (idx > k /\ Absent(results, Plan[k]))

\* C10 witness: a finished run of all tests with --samples 0
C10_Witness ==
  /\ sample_size = 0
  /\ mpc = "done"
  /\ Absent(saved, "latency")
  /\ Absent(saved, "packet_loss")
  /\ Absent(saved, "jitter")

\* position in the list of the method entered last (0 before the first)
Last == IF mpc = "idle" \/ mpc = "save" \/ mpc = "done" THEN idx - 1 ELSE idx

\* the method entered last is the given one and has returned to main()
Finished(metric) ==
  /\ Last \in DOMAIN status
  /\ Plan[Last] = metric
  /\ status[Last] \in Terminal

\* the attempts that yielded a round-trip time, and their values in order
Replies(a) == SelectSeq(a, LAMBDA o : o.kind \in {"value", "reply"})

Values(a) == [k \in 1..Len(Replies(a)) |-> Replies(a)[k].ms]

\* every call was made and came back without a round-trip time
AllFailed(a) ==
  /\ Len(a) = sample_size
  /\ \A k \in DOMAIN a : a[k].kind = "none"

\* h, in hundredths, is the mean of the sequence d rounded to two decimals
IsMean(h, d) == 2 * Abs(100 * Sum(d) - h * Len(d)) <= Len(d)

\* C11: when each of sample_size >= 1 ping attempts yields no round-trip
\* time, each of latency, packet_loss and jitter returns to main() with None
\* as its entry.
C11_AllFailedAbsent ==
  \A metric \in SampleBased :
    (Finished(metric) /\ sample_size >= 1 /\ AllFailed(attempts)) =>
      (status[Last] = "Failed" /\ Absent(results, metric))

\* C12: when the speedtest client cannot be constructed or no server can be
\* selected, the bandwidth entry is None, as for any other failed probe.
C12_UnavailableIsAbsent ==
  \A k \in DOMAIN status :
    (Plan[k] = "bandwidth" /\ status[k] = "Failed") => Absent(results, "bandwidth")

\* the absolute differences of adjacent values
Gaps(l) == [k \in 1..(Len(l) - 1) |-> Abs(l[k + 1] - l[k])]

\* C13: for every sequence of ping outcomes, with l the successful round-trip
\* times in order, the jitter entry is None when l has fewer than 2 values
\* and otherwise holds the mean, minimum and maximum of the adjacent absolute
\* differences of l.
C13_JitterFromAdjacentGaps ==
  Finished("jitter") =>
    LET l == Values(attempts)
        r == results["jitter"]
    IN  IF Len(l) < 2
          THEN r = None
          ELSE /\ r # None
               /\ IsMean(r.average_ms, Gaps(l))
               /\ r.min_ms = 100 * SeqMin(Gaps(l))
               /\ r.max_ms = 100 * SeqMax(Gaps(l))

\* C14: for every sequence of ping outcomes with at least one success, the
\* latency entry holds the minimum, maximum and mean of exactly the
\* successful values, so min <= average <= max, and one value x alone gives
\* average = min = max = x.
C14_LatencyOverSuccesses ==
  (Finished("latency") /\ Values(attempts) # << >>) =>
    LET l == Values(attempts)
        r == results["latency"]
    IN  /\ r # None
        /\ r.min_ms = 100 * SeqMin(l)
        /\ r.max_ms = 100 * SeqMax(l)
        /\ IsMean(r.average_ms, l)
        /\ r.min_ms <= r.average_ms /\ r.average_ms <= r.max_ms
        /\ Len(l) = 1 => r.average_ms = 100 * l[1]

\* C15: each sample-based method calls ping exactly sample_size times before
\* it returns, whether the single attempts reply, stay unanswered or raise.
C15_ExactlySampleSizeCalls ==
  \A metric \in SampleBased :
    Finished(metric) => Len(attempts) = sample_size

\* C16: after a timeout() block has run and exited normally inside another
\* one, the enclosing block's deadline is still armed, and no block's body
\* runs for as long as its budget without being interrupted.
C16_NestedStillGoverned ==
  /\ (blocks # << >> /\ blocks[Len(blocks)].nested) => alarm > 0
  /\ \A k \in DOMAIN blocks : blocks[k].ran < blocks[k].seconds

\* the thread is inside measure_mtu_with_timeout and its calls return
InDescent == tpc \in {"loop", "sr1"}

\* C17 (bounds): measure_mtu_with_timeout sends at most 150 probes, the k-th
\* of size 1500 - 10 (k - 1), so every probed size is one of 10, 20, ..., 1500
\* and the candidate has dropped by 10 after each unanswered probe.
C17_DescentBounded ==
  /\ Len(sent) <= 150
  /\ \A k \in DOMAIN sent :
       /\ sent[k] = 1500 - 10 * (k - 1)
       /\ sent[k] \in {10 * j : j \in 1..150}
  /\ tpc = "sr1" => mtu_size = sent[Len(sent)]
  /\ tpc = "loop" => mtu_size = 1500 - 10 * Len(sent)
  /\ tpc = "returned" => (mtu_size \in answered \/ (mtu_size = 0 /\ Len(sent) = 150))

\* C17: the MTU descent always terminates: within the bounds above, for every
\* reply pattern and every clock behaviour a call whose probes all come back
\* ends by returning a size or by raising TimeoutException (unless an sr1
\* call itself raises or never returns, or the process exits first).
C17_DescentTerminates ==
  /\ []C17_DescentBounded
  /\ InDescent ~> (tpc \in {"returned", "timed_out", "raised", "blocked"} \/ mpc = "done")

\* C17 witness: the descent went through all 150 candidates without a reply
C17_Witness ==
  /\ tpc = "returned"
  /\ Len(sent) = 150
  /\ answered = {}

C19_DnsAllOrNothing ==
  Finished("dns") =>
    LET r == results["dns_resolution"]
        l == Values(attempts)
    IN  /\ Len(attempts) <= 3
        /\ \A k \in 1..(Len(attempts) - 1) : attempts[k].kind = "value"
        /\ IF attempts[Len(attempts)].kind = "value"
             THEN /\ Len(l) = 3
                  /\ r # None
                  /\ IsMean(r.average_ms, l)
                  /\ r.min_ms = 100 * SeqMin(l)
                  /\ r.max_ms = 100 * SeqMax(l)
             ELSE r = None

\* C19 witness: the second resolution failed after the first had succeeded
C19_Witness ==
  /\ Finished("dns")
  /\ Len(attempts) = 2
  /\ attempts[1].kind = "value"
  /\ attempts[2].kind = "raise"
  /\ results["dns_resolution"] = None

====
